---- MODULE Spec2Model ----
(***************************************************************************)
(* Model of CesiumBabylonFusion (src/unnamed/part_004, lines 1-1037): the  *)
(* control-mode arbiter, the camera mirror and the frame cycle.            *)
(*                                                                         *)
(* Representation.                                                         *)
(*  - A global (Cesium) position is kept as its cartographic triple        *)
(*    <<longitude, latitude, height>>; longitude and latitude are counted  *)
(*    in angular ticks, height in metres.  Cartographic.fromCartesian and  *)
(*    Cartesian3.fromRadians are library code and inverse to each other.   *)
(*  - The base point is longitude 0, latitude 0, height 0.  There the      *)
(*    east-north-up frame has east = +Y, north = +Z, up = +X of the fixed  *)
(*    frame, so eastNorthUpToFixedFrame is a permutation of the axes.      *)
(*  - A direction is an integer vector; normalisation reduces it to the    *)
(*    primitive vector of its ray (division by the gcd of its components). *)
(*  - Angles of view are whole degrees.                                    *)
(***************************************************************************)
EXTENDS Integers, Sequences, FiniteSets, TLC

(* ---------------------------------------------------------------------- *)
(* Bounds of the model                                                     *)
(* ---------------------------------------------------------------------- *)

\* globe-camera altitudes range over DefaultSwitchHeight +/- HeightSpread
HeightSpread == 1

\* the application adds at most MaxMeshes meshes to the local scene
MaxMeshes == 2

(* ---------------------------------------------------------------------- *)
(* Program constants                                                       *)
(* ---------------------------------------------------------------------- *)

\* options.autoSwitchHeight ?? 1000
DefaultSwitchHeight == 1000

\* const radius = 6378137.0, expressed in metres per angular tick
radius == 2

\* Math.max(50, Math.min(distance, 500))
MinSafeDistance == 50
MaxSafeDistance == 500

\* new ArcRotateCamera('arcCamera', -PI/2, PI/3, 300, Zero): radius 300
ArcInitialRadius == 300

\* this._cameraController.fov = Math.PI / 4
ArcFov == 45

\* Cesium's default PerspectiveFrustum.fov (60 degrees); also `let fov = 60`
DefaultFov == 60

NoController == [exists |-> FALSE]

Modes == {"cesium", "babylon", "auto"}
ActualModes == {"cesium", "babylon"}

(* ---------------------------------------------------------------------- *)
(* Vector helpers                                                          *)
(* ---------------------------------------------------------------------- *)

Abs(x) == IF x < 0 THEN -x ELSE x

RECURSIVE Gcd(_, _)
Gcd(a, b) == IF b = 0 THEN a ELSE Gcd(b, a % b)

\* the primitive vector of the ray through v
Primitive(v) ==
    LET g == Gcd(Gcd(Abs(v[1]), Abs(v[2])), Abs(v[3]))
    IN  IF g = 0 THEN v ELSE <<v[1] \div g, v[2] \div g, v[3] \div g>>

\* Cartesian3.normalize / Vector3.normalize, of the vector's value
Normalize(v) == CHOOSE n \in { Primitive(w) : w \in {v} } : TRUE

VSub(a, b) == <<a[1] - b[1], a[2] - b[2], a[3] - b[3]>>
VAdd(a, b) == <<a[1] + b[1], a[2] + b[2], a[3] + b[3]>>

\* square root, rounded to the nearest integer, of n < (MaxSafeDistance+1)^2
ISqrt(n) == CHOOSE r \in 0..(MaxSafeDistance + 1) :
                /\ (2 * r - 1) * (2 * r - 1) <= 4 * n
                /\ \/ r = MaxSafeDistance + 1
                   \/ (2 * r + 1) * (2 * r + 1) > 4 * n

\* Math.min(Vector3.Distance(p, origin), 500), without squaring large terms
DistanceCapped(p) ==
    IF \E i \in 1..3 : Abs(p[i]) >= MaxSafeDistance
    THEN MaxSafeDistance
    ELSE LET d == ISqrt(p[1] * p[1] + p[2] * p[2] + p[3] * p[3])
         IN  IF d > MaxSafeDistance THEN MaxSafeDistance ELSE d

(* ---------------------------------------------------------------------- *)
(* Coordinate transform                                                    *)
(* ---------------------------------------------------------------------- *)

\* Cesium.Cartographic.fromCartesian(this.basePoint)
basePointCartographic == <<0, 0, 0>>

\* Math.cos(basePointCartographic.latitude), latitude 0
CosBaseLatitude == 1

\* cartesianToBabylon: east -> x, height -> y, north -> z
cartesianToBabylon(cartesian) ==
    LET lonDiff    == cartesian[1] - basePointCartographic[1]
        latDiff    == cartesian[2] - basePointCartographic[2]
        heightDiff == cartesian[3] - basePointCartographic[3]
        eastDistance  == radius * CosBaseLatitude * lonDiff
        northDistance == radius * latDiff
    IN  <<eastDistance, heightDiff, northDistance>>

\* babylonPositionToCesium: the inverse scaling about the base point
babylonPositionToCesium(babylonPos) ==
    LET eastDistance  == babylonPos[1]
        heightDiff    == babylonPos[2]
        northDistance == babylonPos[3]
        lonDiff == eastDistance \div (radius * CosBaseLatitude)
        latDiff == northDistance \div radius
    IN  <<basePointCartographic[1] + lonDiff,
          basePointCartographic[2] + latDiff,
          basePointCartographic[3] + heightDiff>>

\* Matrix4.inverse(eastNorthUpToFixedFrame(basePoint)) applied to a vector:
\* fixed (X, Y, Z) -> (east, north, up) = (Y, Z, X)
FixedToEnu(d) == <<d[2], d[3], d[1]>>

\* eastNorthUpToFixedFrame(basePoint) applied to a vector:
\* (east, north, up) -> fixed (X, Y, Z) = (up, east, north)
EnuToFixed(l) == <<l[3], l[1], l[2]>>

\* this.basePoint in the fixed frame: on the X axis, one radius from the centre
basePoint == <<radius, 0, 0>>

\* Cartographic.fromCartesian of a fixed-frame point near the base point: its
\* east and north offsets over the radius, and its offset along the zenith
CartographicFromFixed(cartesian) ==
    LET enu == FixedToEnu(VSub(cartesian, basePoint))
    IN  <<basePointCartographic[1] + (enu[1] \div (radius * CosBaseLatitude)),
          basePointCartographic[2] + (enu[2] \div radius),
          basePointCartographic[3] + enu[3]>>

\* babylonToCartesian: basePoint + (x, z, y), as a geodetic point
babylonToCartesian(vector) ==
    LET offset == <<vector[1], vector[3], vector[2]>>
    IN  CartographicFromFixed(VAdd(basePoint, offset))

\* variant: the direction is transformed as a point, base point translation
\* included
cesiumDirectionToBabylon_AsPoint(direction) ==
    LET localDirection == FixedToEnu(VSub(direction, basePoint))
    IN  <<localDirection[1], localDirection[3], localDirection[2]>>

\* cesiumDirectionToBabylon: rotate into ENU, then (east, up, north)
cesiumDirectionToBabylon(direction) ==
    LET localDirection == FixedToEnu(direction)
    IN  <<localDirection[1], localDirection[3], localDirection[2]>>

\* babylonDirectionToCesium: (x, z, y) -> ENU, normalise, rotate, normalise
babylonDirectionToCesium(direction) ==
    LET localDirection == Normalize(<<direction[1], direction[3], direction[2]>>)
    IN  Normalize(EnuToFixed(localDirection))

\* frustum.aspectRatio > 1: the container is wider than it is high
AspectWide == TRUE

(* ---------------------------------------------------------------------- *)
(* Field of view                                                           *)
(* ---------------------------------------------------------------------- *)

\* PerspectiveFrustum.fovy: fov itself when aspectRatio <= 1, otherwise
\* 2 atan(tan(fov / 2) / aspectRatio), here for aspectRatio 2
Fovy(fov) ==
    IF ~AspectWide THEN fov
    ELSE IF fov = 60 THEN 32
    ELSE IF fov = 45 THEN 23
    ELSE fov \div 2

(* ---------------------------------------------------------------------- *)
(* Orbit controller (BABYLON.ArcRotateCamera)                              *)
(* ---------------------------------------------------------------------- *)

\* position of a camera built with alpha = -PI/2, beta = PI/3, radius 300
\* about the origin: (r cos a sin b, r cos b, r sin a sin b)
ArcInitialPosition == <<0, ArcInitialRadius \div 2, -260>>

\* r / sqrt(2), rounded to the nearest even number of metres
Sin45(r) == 2 * ((r * 7071 + 10000) \div 20000)

\* position for alpha = 0, beta = PI/4 and the given radius about the origin
ArcPosition(r) == <<Sin45(r), Sin45(r), 0>>

\* new BABYLON.ArcRotateCamera(...) followed by the four limits and the fov
NewArcRotateCamera ==
    [exists    |-> TRUE,
     position  |-> ArcInitialPosition,
     target    |-> <<0, 0, 0>>,
     upVector  |-> <<0, 1, 0>>,
     fov       |-> ArcFov,
     limits    |-> TRUE,
     attached  |-> FALSE]

\* new BABYLON.FreeCamera('camera', new Vector3(0, 50, 200), scene)
NewFreeCamera ==
    [position |-> <<0, 50, 200>>,
     target   |-> <<0, 50, 201>>,
     upVector |-> <<0, 1, 0>>,
     fov      |-> 46]

(* ---------------------------------------------------------------------- *)
(* Sun direction and light values                                          *)
(* ---------------------------------------------------------------------- *)

\* Cartesian3.normalize(sunDirection, sunDirection): the sun's direction is
\* kept in fixed point, UnitScale units to a length of one
UnitScale == 5

\* options.lightDistance ?? 50
LightDistance == 50

\* Cartesian3.multiplyByScalar(sunDirection, 1000, ...): length of the debug line
LineLength == 1000

\* private _currentSunDirection = new BABYLON.Vector3(0, -1, 0)
InitialSunDirection == <<0, -UnitScale, 0>>

Dot(a, b) == a[1] * b[1] + a[2] * b[2] + a[3] * b[3]

\* Vector3.scale / Cartesian3.multiplyByScalar
Scale(v, k) == <<v[1] * k, v[2] * k, v[3] * k>>

\* a / b for b > 0, rounded to the nearest integer
RoundDiv(a, b) == (2 * a + b) \div (2 * b)

\* Cartesian3.normalize in fixed point: v / |v|, in units of 1 / UnitScale
NormalizeUnit(v) ==
    LET magnitude == ISqrt(Dot(v, v))
    IN  IF magnitude = 0 THEN v
        ELSE <<RoundDiv(v[1] * UnitScale, magnitude),
               RoundDiv(v[2] * UnitScale, magnitude),
               RoundDiv(v[3] * UnitScale, magnitude)>>

\* updateBabylonLighting, lines 519-530: the direction from the base point to
\* the sun, normalised, in the local frame
babylonSunDirection(sunPosition) ==
    cesiumDirectionToBabylon(NormalizeUnit(VSub(sunPosition, basePoint)))

\* variant: the intensity is the sine of the elevation, not clamped at zero
sunIntensity_Unclamped(y) == y

\* Math.max(0, Math.sin(Math.asin(y))), in units of 1 / UnitScale.  Math.asin
\* is NaN outside [-1, 1], and so is Math.max(0, NaN)
sunIntensity(y) ==
    IF Abs(y) > UnitScale THEN "NaN"
    ELSE IF y > 0 THEN y ELSE 0

\* new DirectionalLight('sunLight', direction, scene): Babylon's constructor
\* sets position = direction.scale(-1); the default intensity is 1
NewDirectionalLight(direction) ==
    [position  |-> Scale(direction, -1),
     direction |-> direction,
     intensity |-> UnitScale]

\* sunLight is null
NoLight == [position |-> <<>>, direction |-> <<>>, intensity |-> 0]

\* _directionLine is null: no vertex data
NoLine == <<>>

\* lines 549-554 and 562: the end point of the debug line in the local frame
lineEndPoint(sunPosition) ==
    LET sunDirection == NormalizeUnit(VSub(sunPosition, basePoint))
        endPoint     == VAdd(basePoint,
                             Scale(sunDirection, LineLength \div UnitScale))
    IN  cartesianToBabylon(CartographicFromFixed(endPoint))

\* append one executed step to the record of the running operation, with
\* the effective mode it ran under and whether it ran inside a mode switch
Log(s, step) ==
    [s EXCEPT !.steps = Append(@, [step   |-> step,
                                   mode   |-> s.actualControlMode,
                                   nested |-> s.nested])]

\* an exception leaves the running step; `fail' names the step that throws
Raise(s) == [s EXCEPT !.thrown = TRUE]

\* a call into one of the engines: it throws, or it runs
Step(s, step) == IF s.fail = step THEN Raise(s) ELSE Log(s, step)

\* one more release of the named resource
Release(s, name) == [s EXCEPT !.released[name] = @ + 1]

\* sequencing of statements: Then({ F(x) : x \in {s} }) is the state after
\* statement F has run on the state s the statements before it have produced
Then(S) == CHOOSE r \in S : TRUE

\* a statement inside a try block: next is the state after the statement
\* has run on x; the statement is skipped once an exception is in flight
Try(x, next) == IF x.thrown THEN x ELSE next

(* ---------------------------------------------------------------------- *)
(* Camera mirror                                                           *)
(* ---------------------------------------------------------------------- *)

\* moveCesiumCamera: orbit controller -> globe camera (and free camera)
moveCesiumCamera(s) ==
    IF s.fail = "mirror" THEN Raise(s)
    ELSE
    LET cc == s.cameraController
        t  == Log(s, "moveCesiumCamera")
    IN
    IF ~cc.exists THEN t
    ELSE
      LET babylonDirection == Normalize(VSub(cc.target, cc.position))
          newFov == IF cc.fov # 0 THEN cc.fov ELSE s.viewerCamera.fov
      IN  [t EXCEPT
             !.viewerCamera =
                 [position  |-> babylonPositionToCesium(cc.position),
                  direction |-> Normalize(babylonDirectionToCesium(babylonDirection)),
                  up        |-> Normalize(babylonDirectionToCesium(cc.upVector)),
                  fov       |-> newFov],
             !.camera =
                 [position |-> cc.position,
                  target   |-> cc.target,
                  upVector |-> cc.upVector,
                  fov      |-> cc.fov]]

\* variant: the pass also writes the vertical field of view it read back
\* into the globe camera's frustum
moveBabylonCamera_WritesFrustum(s) ==
    IF s.fail = "mirror" THEN Raise(s)
    ELSE
    LET vc == s.viewerCamera
        camera_pos == cartesianToBabylon(vc.position)
        camera_dir == cesiumDirectionToBabylon(vc.direction)
        camera_up  == cesiumDirectionToBabylon(vc.up)
    IN  [Log(s, "moveBabylonCamera") EXCEPT
           !.viewerCamera.fov = Fovy(vc.fov),
           !.camera =
               [position |-> camera_pos,
                target   |-> VAdd(camera_pos, camera_dir),
                upVector |-> camera_up,
                fov      |-> Fovy(vc.fov)]]

\* moveBabylonCamera: globe camera -> free camera
moveBabylonCamera(s) ==
    IF s.fail = "mirror" THEN Raise(s)
    ELSE
    LET vc == s.viewerCamera
        camera_pos == cartesianToBabylon(vc.position)
        camera_dir == cesiumDirectionToBabylon(vc.direction)
        camera_up  == cesiumDirectionToBabylon(vc.up)
    IN  [Log(s, "moveBabylonCamera") EXCEPT
           !.camera =
               [position |-> camera_pos,
                target   |-> VAdd(camera_pos, camera_dir),
                upVector |-> camera_up,
                fov      |-> Fovy(vc.fov)]]

(* ---------------------------------------------------------------------- *)
(* Control mode arbiter                                                    *)
(* ---------------------------------------------------------------------- *)

\* this.viewer.camera, read at lines 885 and 896-898: once the viewer is
\* destroyed the library may still hand out the camera or may throw
viewerCameraThrows(s) == s.fail = "viewer.camera"

\* getCurrentCameraHeight: Cartographic.fromCartesian(camera.position).height
getCurrentCameraHeight(s) == s.viewerCamera.position[3]

\* variant: entering local mode always constructs a controller
updateControlsForMode_AlwaysNew(s, mode) ==
    IF mode = "cesium"
    THEN [s EXCEPT
            !.babylonCanvasPE   = "none",
            !.cesiumContainerPE = "auto",
            !.cameraController  =
                IF @.exists THEN [@ EXCEPT !.attached = FALSE] ELSE @]
    ELSE [s EXCEPT
            !.babylonCanvasPE   = "auto",
            !.cesiumContainerPE = "none",
            !.created           = @ + 1,
            !.cameraController  = [NewArcRotateCamera EXCEPT !.attached = TRUE],
            !.activeCamera      = "arc"]

\* updateControlsForMode
updateControlsForMode(s, mode) ==
    IF mode = "cesium"
    THEN [s EXCEPT
            !.babylonCanvasPE   = "none",
            !.cesiumContainerPE = "auto",
            !.cameraController  =
                IF @.exists THEN [@ EXCEPT !.attached = FALSE] ELSE @]
    ELSE LET cc == IF s.cameraController.exists
                   THEN s.cameraController
                   ELSE NewArcRotateCamera
         IN  [s EXCEPT
                !.babylonCanvasPE   = "auto",
                !.cesiumContainerPE = "none",
                !.created           = IF s.cameraController.exists THEN @ ELSE @ + 1,
                !.cameraController  = [cc EXCEPT !.attached = TRUE],
                !.activeCamera      = "arc"]

\* switchActualControlMode, lines 911-944: the cameras are brought in line with the new
\* mode.  `saved' is the globe pose read at the start of the switch
alignCamerasForMode(s, newMode, saved, rebuilt) ==
    IF newMode = "cesium"
    THEN Then({ Try(m, [m EXCEPT !.activeCamera = "free"]) :
                  m \in {moveBabylonCamera(s)} })
    ELSE IF s.cameraController.exists
    THEN LET babylonPos   == cartesianToBabylon(saved.position)
             distance     == DistanceCapped(babylonPos)
             safeDistance == IF distance < MinSafeDistance
                             THEN MinSafeDistance ELSE distance
         IN  [s EXCEPT
                !.cameraController.target   = <<0, 0, 0>>,
                !.cameraController.position =
                    IF rebuilt THEN @ ELSE ArcPosition(safeDistance),
                !.activeCamera = "arc"]
    ELSE s

\* variant: the switch ends without rendering
forcedRender_Skipped(s) == s

\* switchActualControlMode, lines 946-949: the local scene is rendered once
\* more, if the instance renders automatically
forcedRender(s) == IF s.autoRender THEN Step(s, "scene.render") ELSE s

\* switchActualControlMode.  `rebuilt' tells whether rebuildAnglesAndRadius
\* recomputes the angles from the controller's current position (TRUE) or
\* keeps the alpha, beta and radius just assigned (FALSE).
switchActualControlMode(s, newMode, rebuilt) ==
    IF s.actualControlMode = newMode THEN s
    ELSE IF viewerCameraThrows(s) THEN Raise(s)
    ELSE
      LET saved == s.viewerCamera
          s1 == [s EXCEPT !.actualControlMode = newMode,
                          !.switches = @ + 1,
                          !.nested   = TRUE]
          s2 == Then({ IF x.fail = "updateControlsForMode" THEN Raise(x)
                       ELSE Then({ updateControlsForMode(y, newMode) :
                                     y \in {Log(x, "updateControlsForMode")} }) :
                       x \in {s1} })
          s3 == Then({ Try(x, [x EXCEPT !.viewerCamera = saved]) : x \in {s2} })
          s4 == Then({ Try(x, alignCamerasForMode(x, newMode, saved, rebuilt)) : x \in {s3} })
          s5 == Then({ Try(x, forcedRender(x)) : x \in {s4} })
      IN  [s5 EXCEPT !.nested = s.nested]

\* variant: the comparison admits the threshold itself
shouldUseCesium_AtLeast(currentHeight, threshold) == currentHeight >= threshold

\* const shouldUseCesium = currentHeight > this._autoSwitchHeight
shouldUseCesium(currentHeight, threshold) == currentHeight > threshold

\* variant: after the check the rule is evaluated once more, with a
\* comparison that admits the threshold
checkAndUpdateAutoMode_Recheck(s, rebuilt) ==
    IF s.controlMode # "auto" THEN s
    ELSE
      LET currentHeight == getCurrentCameraHeight(s)
          first  == IF shouldUseCesium(currentHeight, s.autoSwitchHeight)
                    THEN "cesium" ELSE "babylon"
          second == IF shouldUseCesium_AtLeast(currentHeight, s.autoSwitchHeight)
                    THEN "cesium" ELSE "babylon"
      IN  Then({ switchActualControlMode(y, second, rebuilt) :
                 y \in { switchActualControlMode(x, first, rebuilt) :
                          x \in {Log(s, "checkAndUpdateAutoMode")} } })

\* checkAndUpdateAutoMode
checkAndUpdateAutoMode(s, rebuilt) ==
    IF s.controlMode # "auto" THEN s
    ELSE IF s.fail = "checkAndUpdateAutoMode" THEN Raise(s)
    ELSE IF viewerCameraThrows(s) THEN Raise(s)
    ELSE
      LET currentHeight   == getCurrentCameraHeight(s)
          targetMode      == IF shouldUseCesium(currentHeight, s.autoSwitchHeight)
                             THEN "cesium" ELSE "babylon"
          s1 == Log(s, "checkAndUpdateAutoMode")
          s2 == Then({ IF x.actualControlMode # targetMode
                       THEN switchActualControlMode(x, targetMode, rebuilt)
                       ELSE x :
                       x \in {s1} })
      IN  Then({ [x EXCEPT !.check = [done      |-> TRUE,
                                      height    |-> currentHeight,
                                      threshold |-> s.autoSwitchHeight,
                                      before    |-> s.actualControlMode,
                                      after     |-> x.actualControlMode,
                                      switched  |-> x.switches - s.switches]] :
                 x \in {s2} })

\* variant: the target mode ignores the altitude
autoTargetMode_AlwaysCesium(currentHeight, threshold) == "cesium"

\* setControlMode, line 1015: the target mode when switching to auto
autoTargetMode(currentHeight, threshold) ==
    IF currentHeight > threshold THEN "cesium" ELSE "babylon"

\* setControlMode
setControlMode(s, mode, rebuilt) ==
    IF s.controlMode = mode THEN s
    ELSE
      LET s1 == [s EXCEPT !.controlMode = mode] IN
      IF mode = "auto" /\ viewerCameraThrows(s1) THEN Raise(s1)
      ELSE IF mode = "auto"
      THEN LET currentHeight == getCurrentCameraHeight(s1)
               targetMode    == autoTargetMode(currentHeight, s1.autoSwitchHeight)
           IN  switchActualControlMode(s1, targetMode, rebuilt)
      ELSE switchActualControlMode(
               [s1 EXCEPT !.actualControlMode = mode], mode, rebuilt)

\* variant: the new threshold is stored and first used by the next frame
setAutoSwitchHeight_Deferred(s, height, rebuilt) ==
    [s EXCEPT !.autoSwitchHeight = height]

\* setAutoSwitchHeight
setAutoSwitchHeight(s, height, rebuilt) ==
    LET s1 == [s EXCEPT !.autoSwitchHeight = height] IN
    IF s1.controlMode = "auto"
    THEN checkAndUpdateAutoMode(s1, rebuilt)
    ELSE s1

(* ---------------------------------------------------------------------- *)
(* Frame cycle                                                             *)
(* ---------------------------------------------------------------------- *)

\* variant: a missing transform is reported by an exception
missingTransform_Throw(s) == Raise(s)

\* updateBabylonLighting, lines 508-510: if (!icrfToFixed) return
missingTransform(s) == s

\* updateBabylonLighting, lines 532-547: the sun direction is stored and
\* the light, when there is one, is placed and aimed along it
updateSunLight(s, direction) ==
    [s EXCEPT
       !.currentSunDirection = direction,
       !.sunLightState =
           IF s.sunLight
           THEN [position  |-> Scale(direction, LightDistance),
                 direction |-> Scale(direction, -1),
                 intensity |-> sunIntensity(direction[2])]
           ELSE @]

\* variant: the debug line is built anew on every update
updateDirectionLine_Recreate(s, endPoint) ==
    IF s.showSunDirectionLine
    THEN [s EXCEPT !.directionLine    = TRUE,
                   !.directionLineEnd = endPoint,
                   !.linesCreated     = @ + 1]
    ELSE s

\* updateBabylonLighting, lines 556-581: the debug line is created when it
\* is missing, else its vertex data is replaced; with the indicator off an
\* existing line is disposed
updateDirectionLine(s, endPoint) ==
    IF s.showSunDirectionLine
    THEN IF ~s.directionLine
         THEN [s EXCEPT !.directionLine    = TRUE,
                        !.directionLineEnd = endPoint,
                        !.linesCreated     = @ + 1]
         ELSE [s EXCEPT !.directionLineEnd = endPoint]
    ELSE IF s.directionLine
    THEN [Release(s, "directionLine") EXCEPT !.directionLine    = FALSE,
                                             !.directionLineEnd = NoLine]
    ELSE s

\* updateBabylonLighting.  `lighting' is what the globe viewer holds when
\* the step runs: globe.enableLighting, whether computeIcrfToFixedMatrix
\* has a matrix for clock.currentTime, and the sun's position in the fixed
\* frame at that time
updateBabylonLighting(s, lighting) ==
    IF s.fail = "updateBabylonLighting" THEN Raise(s)
    ELSE IF ~lighting.enableLighting THEN Log(s, "updateBabylonLighting")
    ELSE IF ~lighting.icrfToFixed
    THEN Then({ missingTransform(t) : t \in {Log(s, "updateBabylonLighting")} })
    ELSE Then({ updateDirectionLine(t, lineEndPoint(lighting.sunPosition)) :
                t \in { updateSunLight(Log(s, "updateBabylonLighting"),
                                      babylonSunDirection(lighting.sunPosition)) } })

\* variant: the loop boundary lets the exception through
catchError_Rethrow(s) == [s EXCEPT !.caught = FALSE]

\* catch (error) { console.error(...) } at the end of the loop callback
catchError(s) == [s EXCEPT !.caught = s.thrown, !.thrown = FALSE]

\* variant: render() does not look at the disposed flag
throwIfDisposed_Never(s) == s

\* render(), lines 372-374: throw new Error('Cannot render after disposal')
throwIfDisposed(s) == IF s.isDisposed THEN Raise(s) ELSE s

\* variant: the rule has a band above the threshold, applied while the
\* globe is authoritative instead of while the local scene is
frameAutoCheck_InvertedBand(s, rebuilt) ==
    IF s.controlMode # "auto" THEN s
    ELSE
      LET currentHeight == getCurrentCameraHeight(s)
          limit == IF s.actualControlMode = "cesium"
                   THEN 2 * s.autoSwitchHeight ELSE s.autoSwitchHeight
          targetMode == IF currentHeight > limit THEN "cesium" ELSE "babylon"
      IN  Then({ switchActualControlMode(x, targetMode, rebuilt) :
                 x \in {Log(s, "checkAndUpdateAutoMode")} })

\* frame step, lines 330-332: the auto-switch check runs in auto mode
frameAutoCheck(s, rebuilt) ==
    IF s.controlMode # "auto" THEN s ELSE checkAndUpdateAutoMode(s, rebuilt)

\* frame step, lines 335-341: the camera mirror pass in the direction of
\* the effective mode
frameMirror(s) ==
    IF s.actualControlMode = "cesium"
    THEN moveBabylonCamera(s) ELSE moveCesiumCamera(s)

\* variant: the lighting step ignores the enableLightSync option
frameLighting_Always(s, lighting) == updateBabylonLighting(s, lighting)

\* frame step, lines 344-346: the lighting synchronisation, when enabled
frameLighting(s, lighting) ==
    IF ~s.enableLightSync THEN s ELSE updateBabylonLighting(s, lighting)

\* variant: the mirror direction is chosen before the auto-switch check
renderLoopCallback_StaleMode(s, rebuilt, lighting) ==
    IF s.isDisposed THEN s
    ELSE
      LET s1 == Step(s, "viewer.render")
          s2 == Then({ Try(x, frameAutoCheck(x, rebuilt)) : x \in {s1} })
          s3 == Then({ Try(x, IF s.actualControlMode = "cesium"
                                 THEN moveBabylonCamera(x)
                                 ELSE moveCesiumCamera(x)) :
                       x \in {s2} })
          s4 == Then({ Try(x, frameLighting(x, lighting)) : x \in {s3} })
          s5 == Then({ Try(x, Step(x, "scene.render")) : x \in {s4} })
      IN  Then({ catchError(x) : x \in {s5} })

\* the callback passed to engine.runRenderLoop in setupRenderLoop: the entry
\* check, then the frame steps inside try/catch
renderLoopCallback(s, rebuilt, lighting) ==
    IF s.isDisposed THEN s
    ELSE
      LET s1 == Step(s, "viewer.render")
          s2 == Then({ Try(x, frameAutoCheck(x, rebuilt)) : x \in {s1} })
          s3 == Then({ Try(x, frameMirror(x)) : x \in {s2} })
          s4 == Then({ Try(x, frameLighting(x, lighting)) : x \in {s3} })
          s5 == Then({ Try(x, Step(x, "scene.render")) : x \in {s4} })
      IN  Then({ catchError(x) : x \in {s5} })

\* variant: the lighting is synchronised before the camera mirror pass
render_LightFirst(s, rebuilt, lighting) ==
    LET s0 == throwIfDisposed(s)
        s1 == Then({ Try(x, Step(x, "viewer.render")) : x \in {s0} })
        s2 == Then({ Try(x, frameAutoCheck(x, rebuilt)) : x \in {s1} })
        s3 == Then({ Try(x, frameLighting(x, lighting)) : x \in {s2} })
        s4 == Then({ Try(x, frameMirror(x)) : x \in {s3} })
    IN  Then({ Try(x, Step(x, "scene.render")) : x \in {s4} })

\* render(): throws on a disposed instance, else the frame steps; an
\* exception of a step leaves render() at that step
render(s, rebuilt, lighting) ==
    LET s0 == throwIfDisposed(s)
        s1 == Then({ Try(x, Step(x, "viewer.render")) : x \in {s0} })
        s2 == Then({ Try(x, frameAutoCheck(x, rebuilt)) : x \in {s1} })
        s3 == Then({ Try(x, frameMirror(x)) : x \in {s2} })
        s4 == Then({ Try(x, frameLighting(x, lighting)) : x \in {s3} })
    IN  Then({ Try(x, Step(x, "scene.render")) : x \in {s4} })

(* ---------------------------------------------------------------------- *)
(* Picking                                                                 *)
(* ---------------------------------------------------------------------- *)

\* screen positions of clicks
ClickPositions == { <<10, 10>>, <<20, 20>> }

\* scene.pick(x, y).pickedMesh: the local mesh under a screen position
MeshAt(position) == IF position = <<10, 10>> THEN "box" ELSE "null"

\* setupCesiumEventHandling: LEFT_CLICK input action on the globe viewer
setupCesiumEventHandling(s) ==
    IF ~s.onMeshPicked THEN s ELSE [s EXCEPT !.cesiumPick = TRUE]

\* setupBabylonEventHandling: observer on scene.onPointerObservable
setupBabylonEventHandling(s) ==
    IF ~s.onMeshPicked THEN s ELSE [s EXCEPT !.babylonPick = TRUE]

\* setupEventHandling
setupEventHandling(s) ==
    IF s.fail = "setupEventHandling" THEN Raise(s)
    ELSE IF s.actualControlMode = "cesium"
    THEN setupCesiumEventHandling(s)
    ELSE setupBabylonEventHandling(s)

\* the LEFT_CLICK input action.  click.pickedPosition tells whether
\* viewer.scene.pickPosition(click.position) is defined
cesiumLeftClick(s, click) ==
    IF click.pickedPosition
    THEN [Log(s, "scene.pick") EXCEPT
            !.picks     = Append(@, click.position),
            !.callbacks = Append(@, MeshAt(click.position))]
    ELSE s

\* the pointer observer.  pointerInfo.pickInfo is the mesh the scene picked
\* at the pointer ("none" when the event carries no pick information)
babylonPointerObserver(s, pointerInfo) ==
    IF pointerInfo.pickInfo # "none" /\ pointerInfo.type = "POINTERDOWN"
    THEN [s EXCEPT !.callbacks = Append(@, pointerInfo.pickInfo)]
    ELSE s

(* ---------------------------------------------------------------------- *)
(* Local scene                                                             *)
(* ---------------------------------------------------------------------- *)

\* the public getters of the class, lines 89-133: sunDirection,
\* cesiumViewer, babylonScene, babylonEngine, controlMode,
\* actualControlMode and babylonCameraController; reading any other
\* property, babylonRootNode among them, gives undefined
babylonRootNode == "undefined"

\* scene.onNewMeshAddedObservable notifies its observers of a mesh the
\* application created with the given parent ("none" for no parent).
\* initializeBabylon registers no observer on it, so the mesh keeps the
\* parent it was given
newMeshAdded(s, parent) ==
    [s EXCEPT !.meshes = Append(@, [given |-> parent, parent |-> parent])]

(* ---------------------------------------------------------------------- *)
(* Disposal                                                                *)
(* ---------------------------------------------------------------------- *)

\* variant: dispose() has no entry check
alreadyDisposed_Never(s) == FALSE

\* dispose, line 688: if (this._isDisposed) return
alreadyDisposed(s) == s.isDisposed

\* variant: the debug line is left in the scene
disposeDirectionLine_Skip(s) == s

\* dispose, lines 696-699
disposeDirectionLine(s) ==
    IF s.directionLine
    THEN [Release(s, "directionLine") EXCEPT !.directionLine    = FALSE,
                                             !.directionLineEnd = NoLine]
    ELSE s

\* dispose, lines 724-726: each canvas is removed from its parent when the
\* instance holds a reference to it and it has a parent
removeCesiumContainer(s) ==
    IF s.cesiumContainer /\ s.inDom.cesiumContainer
    THEN [Release(s, "cesiumContainer") EXCEPT !.inDom.cesiumContainer = FALSE]
    ELSE s

\* dispose, lines 728-730
removeBabylonCanvas(s) ==
    IF s.babylonCanvas /\ s.inDom.babylonCanvas
    THEN [Release(s, "babylonCanvas") EXCEPT !.inDom.babylonCanvas = FALSE]
    ELSE s

\* dispose, lines 724-730
removeCanvases(s) ==
    Then({ removeBabylonCanvas(x) : x \in {removeCesiumContainer(s)} })

\* dispose, lines 692-694
disposeResizeObserver(s) ==
    IF s.resizeObserver # "none"
    THEN [Release(s, "resizeObserver") EXCEPT !.resizeObserver = "disconnected"]
    ELSE s

\* dispose, lines 701-704
disposeShadowGenerator(s) ==
    IF s.shadowGenerator
    THEN [Release(s, "shadowGenerator") EXCEPT !.shadowGenerator = FALSE]
    ELSE s

\* dispose, lines 706-709
disposeSunLight(s) ==
    IF s.sunLight
    THEN [Release(s, "sunLight") EXCEPT !.sunLight      = FALSE,
                                        !.sunLightState = NoLight]
    ELSE s

\* dispose, lines 711-714
disposeCameraController(s) ==
    IF s.cameraController.exists
    THEN [Release(s, "cameraController") EXCEPT !.cameraController = NoController]
    ELSE s

\* dispose, lines 716-718: engine.dispose() stops the render loop and
\* disposes the scene with its pointer observers
disposeEngine(s) ==
    IF s.engine # "none"
    THEN [Release(s, "engine") EXCEPT
             !.engine      = "disposed",
             !.renderLoop  = IF @ = "running" THEN "stopped" ELSE @,
             !.babylonPick = FALSE,
             !.meshes      = <<>>]
    ELSE s

\* dispose, lines 720-722: viewer.destroy() destroys the viewer's
\* screen-space event handler
destroyViewer(s) ==
    IF s.viewer # "none"
    THEN [Release(s, "viewer") EXCEPT
             !.viewer     = "destroyed",
             !.cesiumPick = FALSE]
    ELSE s

\* dispose
dispose(s) ==
    IF alreadyDisposed(s) THEN s
    ELSE
      LET s0 == [s EXCEPT !.isDisposed = TRUE]
          s1 == Then({ disposeResizeObserver(x) : x \in {s0} })
          s2 == Then({ disposeDirectionLine(x) : x \in {s1} })
          s3 == Then({ disposeShadowGenerator(x) : x \in {s2} })
          s4 == Then({ disposeSunLight(x) : x \in {s3} })
          s5 == Then({ disposeCameraController(x) : x \in {s4} })
          s6 == Then({ disposeEngine(x) : x \in {s5} })
          s7 == Then({ destroyViewer(x) : x \in {s6} })
      IN  Then({ removeCanvases(x) : x \in {s7} })
(* ---------------------------------------------------------------------- *)
(* State                                                                   *)
(* ---------------------------------------------------------------------- *)

VARIABLES
    controlMode,        \* _controlMode
    actualControlMode,  \* _actualControlMode
    autoSwitchHeight,   \* _autoSwitchHeight
    babylonCanvasPE,    \* babylonCanvas.style.pointerEvents
    cesiumContainerPE,  \* cesiumContainer.style.pointerEvents
    cameraController,   \* _cameraController (ArcRotateCamera or null)
    viewerCamera,       \* viewer.camera: position, direction, up, frustum fov
    camera,             \* camera (FreeCamera)
    activeCamera,       \* scene.activeCamera: "free" or "arc"
    isDisposed,         \* _isDisposed
    autoRender,         \* _autoRender
    enableLightSync,    \* _enableLightSync
    enableShadow,       \* _enableShadow
    showSunDirectionLine, \* _showSunDirectionLine
    onMeshPicked,       \* _options.onMeshPicked is set
    sunLight,           \* sunLight is not null
    shadowGenerator,    \* shadowGenerator is not null
    directionLine,      \* _directionLine is not null
    currentSunDirection, \* _currentSunDirection
    sunLightState,      \* sunLight's position, direction and intensity
    directionLineEnd,   \* second vertex of _directionLine
    meshes,             \* the meshes the application added to the scene
    engine,             \* engine: "none", "live" or "disposed"
    viewer,             \* viewer: "none", "live" or "destroyed"
    renderLoop,         \* the callback given to runRenderLoop: "none", "running", "stopped"
    resizeObserver,     \* _resizeObserver: "none", "created", "observing", "disconnected"
    cesiumContainer,    \* this.cesiumContainer is assigned
    babylonCanvas,      \* this.babylonCanvas is assigned
    cesiumPick,         \* the LEFT_CLICK input action is registered
    babylonPick,        \* the pointer observer is registered
    released,           \* how many times each resource was released
    created,            \* number of ArcRotateCamera objects constructed so far
    inDom,              \* which canvases are children of the container
    constructed,        \* the constructor returned an instance
    last,               \* the last operation: name, argument, steps, pre-state
    cont                \* globe pose before the last mode switch, and what followed

vars == <<controlMode, actualControlMode, autoSwitchHeight, babylonCanvasPE,
          cesiumContainerPE, cameraController, viewerCamera, camera,
          activeCamera, isDisposed, autoRender, enableLightSync, enableShadow,
          showSunDirectionLine, onMeshPicked, sunLight, shadowGenerator,
          directionLine, engine, viewer, renderLoop, resizeObserver,
          cesiumContainer, babylonCanvas, cesiumPick, babylonPick, released,
          created, inDom, constructed, currentSunDirection, sunLightState,
          directionLineEnd, meshes, last, cont>>

\* the program's own variables
programVars ==
        <<controlMode, actualControlMode, autoSwitchHeight, babylonCanvasPE,
          cesiumContainerPE, cameraController, viewerCamera, camera,
          activeCamera, isDisposed, autoRender, enableLightSync, enableShadow,
          showSunDirectionLine, onMeshPicked, sunLight, shadowGenerator,
          directionLine, engine, viewer, renderLoop, resizeObserver,
          cesiumContainer, babylonCanvas, cesiumPick, babylonPick, released,
          created, inDom, constructed, currentSunDirection, sunLightState,
          directionLineEnd, meshes>>

NoCheck == [done |-> FALSE]

\* the resources dispose() releases
Resources == {"resizeObserver", "directionLine", "shadowGenerator", "sunLight",
              "cameraController", "engine", "viewer", "cesiumContainer",
              "babylonCanvas"}

\* the instance as one record, with an empty record of the running
\* operation: its steps, the step that throws, what was thrown and caught
State ==
    [controlMode       |-> controlMode,
     actualControlMode |-> actualControlMode,
     autoSwitchHeight  |-> autoSwitchHeight,
     babylonCanvasPE   |-> babylonCanvasPE,
     cesiumContainerPE |-> cesiumContainerPE,
     cameraController  |-> cameraController,
     viewerCamera      |-> viewerCamera,
     camera            |-> camera,
     activeCamera      |-> activeCamera,
     isDisposed        |-> isDisposed,
     autoRender        |-> autoRender,
     enableLightSync   |-> enableLightSync,
     enableShadow      |-> enableShadow,
     showSunDirectionLine |-> showSunDirectionLine,
     onMeshPicked      |-> onMeshPicked,
     sunLight          |-> sunLight,
     shadowGenerator   |-> shadowGenerator,
     directionLine     |-> directionLine,
     engine            |-> engine,
     viewer            |-> viewer,
     renderLoop        |-> renderLoop,
     resizeObserver    |-> resizeObserver,
     cesiumContainer   |-> cesiumContainer,
     babylonCanvas     |-> babylonCanvas,
     cesiumPick        |-> cesiumPick,
     babylonPick       |-> babylonPick,
     released          |-> released,
     created           |-> created,
     inDom             |-> inDom,
     constructed       |-> constructed,
     currentSunDirection |-> currentSunDirection,
     sunLightState     |-> sunLightState,
     directionLineEnd  |-> directionLineEnd,
     meshes            |-> meshes,
     linesCreated      |-> 0,
     steps             |-> <<>>,
     check             |-> NoCheck,
     switches          |-> 0,
     nested            |-> FALSE,
     fail              |-> "none",
     thrown            |-> FALSE,
     caught            |-> FALSE,
     picks             |-> <<>>,
     callbacks         |-> <<>>]

\* the same, for an operation in which the step `fail' throws
Failing(fail) == [State EXCEPT !.fail = fail]

\* the pose of a globe camera record, without its frustum
PoseOf(vc) == [position |-> vc.position, direction |-> vc.direction, up |-> vc.up]

\* the pose of the camera that owns the view in state t, in the global frame
AuthoritativePose(t) ==
    IF t.actualControlMode = "babylon" /\ t.cameraController.exists
    THEN LET cc == t.cameraController
         IN  [position  |-> babylonPositionToCesium(cc.position),
              direction |-> babylonDirectionToCesium(VSub(cc.target, cc.position)),
              up        |-> babylonDirectionToCesium(cc.upVector)]
    ELSE PoseOf(t.viewerCamera)

NoSwitch == [phase |-> "none"]

\* the program's variables take their values from t
Assign(t) ==
    /\ controlMode'       = t.controlMode
    /\ actualControlMode' = t.actualControlMode
    /\ autoSwitchHeight'  = t.autoSwitchHeight
    /\ babylonCanvasPE'   = t.babylonCanvasPE
    /\ cesiumContainerPE' = t.cesiumContainerPE
    /\ cameraController'  = t.cameraController
    /\ viewerCamera'      = t.viewerCamera
    /\ camera'            = t.camera
    /\ activeCamera'      = t.activeCamera
    /\ isDisposed'        = t.isDisposed
    /\ autoRender'        = t.autoRender
    /\ enableLightSync'   = t.enableLightSync
    /\ enableShadow'      = t.enableShadow
    /\ showSunDirectionLine' = t.showSunDirectionLine
    /\ onMeshPicked'      = t.onMeshPicked
    /\ sunLight'          = t.sunLight
    /\ shadowGenerator'   = t.shadowGenerator
    /\ directionLine'     = t.directionLine
    /\ engine'            = t.engine
    /\ viewer'            = t.viewer
    /\ renderLoop'        = t.renderLoop
    /\ resizeObserver'    = t.resizeObserver
    /\ cesiumContainer'   = t.cesiumContainer
    /\ babylonCanvas'     = t.babylonCanvas
    /\ cesiumPick'        = t.cesiumPick
    /\ babylonPick'       = t.babylonPick
    /\ released'          = t.released
    /\ created'           = t.created
    /\ inDom'             = t.inDom
    /\ constructed'       = t.constructed
    /\ currentSunDirection' = t.currentSunDirection
    /\ sunLightState'     = t.sunLightState
    /\ directionLineEnd'  = t.directionLineEnd
    /\ meshes'            = t.meshes

\* the record of an operation that ended in state t; afterCaught tells
\* whether the operation before it was a loop frame whose exception was caught
Outcome(t, op, arg, preMode, preActual, preDisposed, afterCaught) ==
    [op        |-> op,
     arg       |-> arg,
     threw     |-> t.thrown,
     caught    |-> t.caught,
     steps     |-> t.steps,
     check     |-> t.check,
     switches  |-> t.switches,
     picks     |-> t.picks,
     callbacks |-> t.callbacks,
     linesCreated |-> t.linesCreated,
     preMode   |-> preMode,
     preActual |-> preActual,
     preDisposed |-> preDisposed,
     afterCaught |-> afterCaught]

\* the next state is t; op and arg describe the operation that ran
Apply(result, op, arg) ==
  \E t \in {result} :
    /\ Assign(t)
    /\ last' = Outcome(t, op, arg, controlMode, actualControlMode, isDisposed,
                       last.op = "frame" /\ last.caught)
    /\ cont' =
         IF op \in {"setControlMode", "setAutoSwitchHeight"}
         THEN IF t.actualControlMode # actualControlMode
              THEN [phase |-> "switched", pose |-> PoseOf(viewerCamera)]
              ELSE NoSwitch
         ELSE IF op \in {"frame", "render"} /\ ~t.thrown /\ ~t.caught /\ ~isDisposed
         THEN IF t.switches > 0
              THEN [phase |-> "framed", pose |-> PoseOf(viewerCamera)]
              ELSE IF cont.phase = "switched"
              THEN [phase |-> "framed", pose |-> cont.pose]
              ELSE NoSwitch
         ELSE NoSwitch

(* ---------------------------------------------------------------------- *)
(* Construction                                                            *)
(* ---------------------------------------------------------------------- *)

Heights == (DefaultSwitchHeight - HeightSpread)..(DefaultSwitchHeight + HeightSpread)

\* values of options.autoSwitchHeight and of setAutoSwitchHeight's argument
Thresholds == {DefaultSwitchHeight, DefaultSwitchHeight \div 10}

\* orientation of the globe camera at altitude h (fixed-frame vectors at
\* the base point): looking north with the zenith up above the default
\* threshold, looking down with north up at or below it
GlobeOrientation(h) ==
    IF h > DefaultSwitchHeight
    THEN [direction |-> <<0, 0, 1>>,  up |-> <<1, 0, 0>>]
    ELSE [direction |-> <<-1, 0, 0>>, up |-> <<0, 0, 1>>]

\* poses the globe camera is given by the user or by the application
GlobePoses ==
    { [position  |-> <<0, 0, h>>,
       direction |-> GlobeOrientation(h).direction,
       up        |-> GlobeOrientation(h).up] : h \in Heights }

\* positions the user can orbit or zoom the controller to (target: origin)
OrbitPositions == { ArcInitialPosition, <<0, 1200, -260>> }

\* the options objects given to the constructor
Options ==
    [controlMode          : Modes,
     autoSwitchHeight     : Thresholds,
     autoRender           : BOOLEAN,
     enableLightSync      : BOOLEAN,
     enableShadow         : BOOLEAN,
     showSunDirectionLine : BOOLEAN,
     onMeshPicked         : BOOLEAN]

\* the points at which the constructor's initialisation can throw
ConstructorFailures ==
    {"appendChild(cesiumContainer)", "createElement(canvas)", "new Viewer",
     "new Engine", "new DirectionalLight", "setupEventHandling",
     "runRenderLoop", "new ResizeObserver", "observe"}

\* variant: the effective mode always starts as globe
InitialActualMode_AlwaysCesium(mode) == "cesium"

\* constructor, line 148
InitialActualMode(mode) == IF mode = "auto" THEN "cesium" ELSE mode

\* initializeBabylon: which controller the constructor builds
InitialController(mode, actual) ==
    IF actual = "babylon" THEN [NewArcRotateCamera EXCEPT !.attached = TRUE]
    ELSE IF mode = "auto" THEN NewArcRotateCamera
    ELSE NoController

\* the fields before the try block of the constructor; p is the pose the
\* globe camera has once the viewer exists
FieldInitializers(o, p, fail) ==
    [controlMode       |-> o.controlMode,
     actualControlMode |-> InitialActualMode(o.controlMode),
     autoSwitchHeight  |-> o.autoSwitchHeight,
     babylonCanvasPE   |-> "unset",
     cesiumContainerPE |-> "unset",
     cameraController  |-> NoController,
     viewerCamera      |-> [position |-> p.position, direction |-> p.direction,
                            up |-> p.up, fov |-> DefaultFov],
     camera            |-> NewFreeCamera,
     activeCamera      |-> "free",
     isDisposed        |-> FALSE,
     autoRender        |-> o.autoRender,
     enableLightSync   |-> o.enableLightSync,
     enableShadow      |-> o.enableShadow,
     showSunDirectionLine |-> o.showSunDirectionLine,
     onMeshPicked      |-> o.onMeshPicked,
     sunLight          |-> FALSE,
     shadowGenerator   |-> FALSE,
     directionLine     |-> FALSE,
     engine            |-> "none",
     viewer            |-> "none",
     renderLoop        |-> "none",
     resizeObserver    |-> "none",
     cesiumContainer   |-> FALSE,
     babylonCanvas     |-> FALSE,
     cesiumPick        |-> FALSE,
     babylonPick       |-> FALSE,
     released          |-> [r \in Resources |-> 0],
     created           |-> 0,
     inDom             |-> [cesiumContainer |-> FALSE, babylonCanvas |-> FALSE],
     constructed       |-> FALSE,
     currentSunDirection |-> InitialSunDirection,
     sunLightState     |-> NoLight,
     directionLineEnd  |-> NoLine,
     meshes            |-> <<>>,
     linesCreated      |-> 0,
     steps             |-> <<>>,
     check             |-> NoCheck,
     switches          |-> 0,
     nested            |-> FALSE,
     fail              |-> fail,
     thrown            |-> FALSE,
     caught            |-> FALSE,
     picks             |-> <<>>,
     callbacks         |-> <<>>]

\* initializeCanvases: the globe container is appended to the container
\* (line 173) before the local canvas is created (176); the reference to the
\* globe container is stored last (195)
initializeCanvases(s) ==
    IF s.fail = "appendChild(cesiumContainer)" THEN Raise(s)
    ELSE
      LET s1 == [s EXCEPT !.inDom.cesiumContainer = TRUE] IN
      IF s.fail = "createElement(canvas)" THEN Raise(s1)
      ELSE [s1 EXCEPT
              !.babylonCanvas     = TRUE,
              !.babylonCanvasPE   = IF s.actualControlMode = "cesium"
                                    THEN "none" ELSE "auto",
              !.cesiumContainerPE = IF s.actualControlMode = "cesium"
                                    THEN "auto" ELSE "none",
              !.inDom.babylonCanvas = TRUE,
              !.cesiumContainer   = TRUE]

\* initializeCesium
initializeCesium(s) ==
    IF s.fail = "new Viewer" THEN Raise(s) ELSE [s EXCEPT !.viewer = "live"]

\* initializeBabylon
initializeBabylon(s) ==
    IF s.fail = "new Engine" THEN Raise(s)
    ELSE
      LET cc == InitialController(s.controlMode, s.actualControlMode)
          s1 == [s EXCEPT
                   !.engine           = "live",
                   !.camera           = NewFreeCamera,
                   !.cameraController = cc,
                   !.created          = IF cc.exists THEN 1 ELSE 0,
                   !.activeCamera     = IF s.actualControlMode = "babylon"
                                        THEN "arc" ELSE "free"]
      IN  IF ~s.enableLightSync THEN s1
          ELSE IF s.fail = "new DirectionalLight" THEN Raise(s1)
          ELSE [s1 EXCEPT !.sunLight        = TRUE,
                          !.sunLightState   =
                              NewDirectionalLight(Scale(s.currentSunDirection, -1)),
                          !.shadowGenerator = s.enableShadow]

\* variant: the loop is registered whatever autoRender says
setupRenderLoop_Always(s) ==
    IF s.fail = "runRenderLoop" THEN Raise(s)
    ELSE [s EXCEPT !.renderLoop = "running"]

\* setupRenderLoop
setupRenderLoop(s) ==
    IF ~s.autoRender THEN s
    ELSE IF s.fail = "runRenderLoop" THEN Raise(s)
    ELSE [s EXCEPT !.renderLoop = "running"]

\* variant: the callback resizes without looking at the disposed flag
resizeObserverCallback_Unguarded(s) ==
    Then({ Try(x, Step(x, "viewer.resize")) : x \in {Step(s, "engine.resize")} })

\* the callback given to new ResizeObserver, lines 358-363
resizeObserverCallback(s) ==
    IF ~s.isDisposed
    THEN Then({ Try(x, Step(x, "viewer.resize")) : x \in {Step(s, "engine.resize")} })
    ELSE s

\* setupResizeHandling
setupResizeHandling(s) ==
    IF s.fail = "new ResizeObserver" THEN Raise(s)
    ELSE IF s.fail = "observe" THEN Raise([s EXCEPT !.resizeObserver = "created"])
    ELSE [s EXCEPT !.resizeObserver = "observing"]

\* constructor, line 160: this.dispose() in the catch block
disposeOnFailure(s) == dispose(s)

\* constructor: the initialisation steps inside try, dispose and rethrow in
\* catch
constructor(o, p, fail) ==
    LET s0 == FieldInitializers(o, p, fail)
        s1 == Then({ initializeCanvases(x) : x \in {s0} })
        s2 == Then({ Try(x, initializeCesium(x)) : x \in {s1} })
        s3 == Then({ Try(x, initializeBabylon(x)) : x \in {s2} })
        s4 == Then({ Try(x, setupEventHandling(x)) : x \in {s3} })
        s5 == Then({ Try(x, setupRenderLoop(x)) : x \in {s4} })
        s6 == Then({ Try(x, setupResizeHandling(x)) : x \in {s5} })
    IN  Then({ IF x.thrown THEN disposeOnFailure(x)
               ELSE [x EXCEPT !.constructed = TRUE] :
               x \in {s6} })

\* the state after new CesiumBabylonFusion(o), for the options, initial
\* globe poses and failing steps of the given sets
Constructed(options, poses, failures) ==
    \E o \in options, p \in poses, fail \in failures :
     \E t \in { constructor(o, p, fail) } :
       /\ controlMode       = t.controlMode
       /\ actualControlMode = t.actualControlMode
       /\ autoSwitchHeight  = t.autoSwitchHeight
       /\ babylonCanvasPE   = t.babylonCanvasPE
       /\ cesiumContainerPE = t.cesiumContainerPE
       /\ cameraController  = t.cameraController
       /\ viewerCamera      = t.viewerCamera
       /\ camera            = t.camera
       /\ activeCamera      = t.activeCamera
       /\ isDisposed        = t.isDisposed
       /\ autoRender        = t.autoRender
       /\ enableLightSync   = t.enableLightSync
       /\ enableShadow      = t.enableShadow
       /\ showSunDirectionLine = t.showSunDirectionLine
       /\ onMeshPicked      = t.onMeshPicked
       /\ sunLight          = t.sunLight
       /\ shadowGenerator   = t.shadowGenerator
       /\ directionLine     = t.directionLine
       /\ engine            = t.engine
       /\ viewer            = t.viewer
       /\ renderLoop        = t.renderLoop
       /\ resizeObserver    = t.resizeObserver
       /\ cesiumContainer   = t.cesiumContainer
       /\ babylonCanvas     = t.babylonCanvas
       /\ cesiumPick        = t.cesiumPick
       /\ babylonPick       = t.babylonPick
       /\ released          = t.released
       /\ created           = t.created
       /\ inDom             = t.inDom
       /\ constructed       = t.constructed
       /\ currentSunDirection = t.currentSunDirection
       /\ sunLightState     = t.sunLightState
       /\ directionLineEnd  = t.directionLineEnd
       /\ meshes            = t.meshes
       /\ last = Outcome(t, "constructor", IF t.thrown THEN fail ELSE "none",
                         t.controlMode, t.actualControlMode, FALSE, FALSE)
       /\ cont = NoSwitch

\* instances without shadows, debug line and pick callback
PlainOptions ==
    { o \in Options : ~o.enableShadow /\ ~o.showSunDirectionLine /\ ~o.onMeshPicked }

Init == Constructed(PlainOptions, GlobePoses, {"none"})

(* ---------------------------------------------------------------------- *)
(* Operations                                                              *)
(* ---------------------------------------------------------------------- *)

\* the steps of a frame cycle that can throw
FrameFailures ==
    {"viewer.render", "checkAndUpdateAutoMode", "updateControlsForMode",
     "mirror", "updateBabylonLighting", "scene.render"}

\* the sun straight above the base point
NoonSun == <<102, 0, 0>>

\* what the lighting step can find: globe lighting off or on.  It is read
\* only with light sync on, and with one position of the sun it decides the
\* debug line and the light's values once
LightingInputs ==
    { [enableLighting |-> e, icrfToFixed |-> TRUE, sunPosition |-> NoonSun] :
        e \in IF enableLightSync /\ (showSunDirectionLine \/ directionLine)
              THEN BOOLEAN ELSE {FALSE} }

\* the callback registered with engine.runRenderLoop fires
RenderLoopFrame ==
    /\ constructed
    /\ renderLoop # "none"
    /\ \E rebuilt \in BOOLEAN, lighting \in LightingInputs :
         Apply(renderLoopCallback(State, rebuilt, lighting), "frame", "none")

\* public render()
Render ==
    /\ constructed
    /\ \E rebuilt \in BOOLEAN, lighting \in LightingInputs :
         Apply(render(State, rebuilt, lighting), "render", "none")

\* the loop callback fires and one of its steps throws
FaultyLoopFrame ==
    /\ constructed
    /\ renderLoop # "none"
    /\ \E rebuilt \in BOOLEAN, lighting \in LightingInputs,
          fail \in FrameFailures :
         Apply(renderLoopCallback(Failing(fail), rebuilt, lighting),
               "frame", fail)

\* render() is called and one of its steps throws
FaultyRender ==
    /\ constructed
    /\ \E rebuilt \in BOOLEAN, lighting \in LightingInputs,
          fail \in FrameFailures :
         Apply(render(Failing(fail), rebuilt, lighting), "render", fail)

\* public setControlMode(mode)
SetControlMode ==
    /\ constructed
    /\ \E mode \in Modes, rebuilt \in BOOLEAN :
         Apply(setControlMode(State, mode, rebuilt), "setControlMode", mode)

\* public setAutoSwitchHeight(height)
SetAutoSwitchHeight ==
    /\ constructed
    /\ \E height \in Thresholds, rebuilt \in BOOLEAN :
         Apply(setAutoSwitchHeight(State, height, rebuilt),
               "setAutoSwitchHeight", height)

\* public dispose()
Dispose ==
    /\ constructed
    /\ Apply(dispose(State), "dispose", "none")

\* the user or the application moves the globe camera (cesiumViewer.camera)
MoveGlobeCamera ==
    /\ constructed
    /\ ~isDisposed
    /\ \E p \in GlobePoses :
         Apply([State EXCEPT !.viewerCamera =
                   [position |-> p.position, direction |-> p.direction,
                    up |-> p.up, fov |-> viewerCamera.fov]],
               "moveGlobeCamera", "none")

\* the user orbits or zooms the attached controller on the local canvas
OrbitController ==
    /\ constructed
    /\ ~isDisposed
    /\ cameraController.exists
    /\ cameraController.attached
    /\ babylonCanvasPE = "auto"
    /\ \E p \in OrbitPositions :
         Apply([State EXCEPT !.cameraController.position = p],
               "orbit", "none")

\* the user clicks where the globe container receives pointer events; the
\* viewer's LEFT_CLICK input action runs if one is registered
GlobeClick ==
    /\ constructed
    /\ ~isDisposed
    /\ cesiumContainerPE = "auto"
    /\ \E position \in ClickPositions, pickedPosition \in BOOLEAN :
         LET click == [position |-> position, pickedPosition |-> pickedPosition]
         IN  Apply(IF cesiumPick THEN cesiumLeftClick(State, click) ELSE State,
                   "globeClick", click)

\* the user presses or releases the pointer where the local canvas receives
\* pointer events; the scene notifies its pointer observers
LocalPointer ==
    /\ constructed
    /\ ~isDisposed
    /\ babylonCanvasPE = "auto"
    /\ \E position \in ClickPositions, type \in {"POINTERDOWN", "POINTERUP"} :
         LET pointerInfo == [type |-> type, pickInfo |-> MeshAt(position)]
         IN  Apply(IF babylonPick
                   THEN babylonPointerObserver(State, pointerInfo) ELSE State,
                   "localPointer", pointerInfo)

Next ==
    \/ RenderLoopFrame
    \/ Render
    \/ SetControlMode
    \/ SetAutoSwitchHeight
    \/ Dispose
    \/ MoveGlobeCamera
    \/ OrbitController

Spec == Init /\ [][Next]_vars

\* instances with or without a pick callback, and clicks on both surfaces
InitPicking ==
    Constructed({ o \in Options : /\ ~o.enableShadow
                                  /\ ~o.showSunDirectionLine
                                  /\ ~o.enableLightSync },
                GlobePoses, {"none"})

NextPicking ==
    \/ RenderLoopFrame
    \/ Render
    \/ SetControlMode
    \/ MoveGlobeCamera
    \/ Dispose
    \/ GlobeClick
    \/ LocalPointer

SpecPicking == InitPicking /\ [][NextPicking]_vars

\* frame cycles in which a step may throw
InitFaults ==
    Constructed({ o \in PlainOptions : /\ o.autoSwitchHeight = DefaultSwitchHeight
                                       /\ o.autoRender },
                GlobePoses, {"none"})

NextFaults ==
    \/ RenderLoopFrame
    \/ FaultyLoopFrame
    \/ Render
    \/ FaultyRender
    \/ SetControlMode
    \/ MoveGlobeCamera

SpecFaults == InitFaults /\ [][NextFaults]_vars

\* the pose of an instance constructed below the default threshold
LowPose == { p \in GlobePoses : p.position[3] = DefaultSwitchHeight }

\* construction with every combination of the light, shadow, debug line and
\* pick options, with or without a failing initialisation step, and disposal
InitLifecycle ==
    Constructed({ o \in Options : o.autoSwitchHeight = DefaultSwitchHeight },
                LowPose, ConstructorFailures \cup {"none"})

NextLifecycle ==
    \/ RenderLoopFrame
    \/ Render
    \/ SetControlMode
    \/ Dispose

SpecLifecycle == InitLifecycle /\ [][NextLifecycle]_vars


(* ---------------------------------------------------------------------- *)
(* Lighting: frames under every state of the globe's clock and lighting    *)
(* ---------------------------------------------------------------------- *)

\* positions of the sun in the fixed frame over a day at the base point:
\* zenith, east horizon, 37 degrees up, 37 degrees down, nadir, north-east
\* horizon
SunPositions ==
    { NoonSun, <<2, 100, 0>>, <<62, 80, 0>>, <<-58, 80, 0>>, <<-98, 0, 0>>,
      <<2, 60, 80>> }

\* globe.enableLighting, availability of the ICRF-to-fixed matrix at
\* clock.currentTime, and the sun's position at that time (read only when
\* lighting is on and the matrix is there)
SunInputs ==
    { [enableLighting |-> FALSE, icrfToFixed |-> TRUE,  sunPosition |-> NoonSun],
      [enableLighting |-> TRUE,  icrfToFixed |-> FALSE, sunPosition |-> NoonSun] }
    \cup { [enableLighting |-> TRUE, icrfToFixed |-> TRUE, sunPosition |-> p] :
              p \in SunPositions }

\* the loop callback fires, at any simulated time
LitLoopFrame ==
    /\ constructed
    /\ renderLoop # "none"
    /\ \E lighting \in SunInputs :
         Apply(renderLoopCallback(State, FALSE, lighting), "frame", lighting)

\* public render(), at any simulated time
LitRender ==
    /\ constructed
    /\ \E lighting \in SunInputs :
         Apply(render(State, FALSE, lighting), "render", lighting)

\* instances in globe mode (no mode switch, so rebuildAnglesAndRadius is
\* not reached) with every combination of the rendering and lighting options
LightingOptions ==
    { o \in Options : /\ o.controlMode = "cesium"
                      /\ o.autoSwitchHeight = DefaultSwitchHeight
                      /\ ~o.onMeshPicked }

InitLighting == Constructed(LightingOptions, LowPose, {"none"})

NextLighting ==
    \/ LitLoopFrame
    \/ LitRender
    \/ Dispose

SpecLighting == InitLighting /\ [][NextLighting]_vars

(* ---------------------------------------------------------------------- *)
(* Local scene: the application adds meshes                                *)
(* ---------------------------------------------------------------------- *)

\* the parent a mesh has when the application adds it: none, or a node of
\* the application
MeshParents == {"none", "node"}

\* the application creates a mesh in babylonScene
AddMesh ==
    /\ constructed
    /\ ~isDisposed
    /\ Len(meshes) < MaxMeshes
    /\ \E parent \in MeshParents :
         Apply(newMeshAdded(State, parent), "addMesh", parent)

InitScene == Constructed(PlainOptions, LowPose, {"none"})

NextScene ==
    \/ AddMesh
    \/ RenderLoopFrame
    \/ Render
    \/ Dispose

SpecScene == InitScene /\ [][NextScene]_vars

(* ---------------------------------------------------------------------- *)
(* Resize notifications                                                    *)
(* ---------------------------------------------------------------------- *)

\* the host delivers a resize notification to the observer's callback; one
\* that was pending when disconnect() ran may still be delivered
ResizeNotification ==
    /\ constructed
    /\ resizeObserver \in {"observing", "disconnected"}
    /\ Apply(resizeObserverCallback(State), "resize", "none")

InitResize ==
    Constructed({ o \in PlainOptions : o.autoSwitchHeight = DefaultSwitchHeight },
                GlobePoses, {"none"})

NextResize ==
    \/ RenderLoopFrame
    \/ Render
    \/ SetControlMode
    \/ MoveGlobeCamera
    \/ Dispose
    \/ ResizeNotification

SpecResize == InitResize /\ [][NextResize]_vars

(* ---------------------------------------------------------------------- *)
(* Auto mode left to itself                                                *)
(* ---------------------------------------------------------------------- *)

\* globe poses at the altitudes around the default threshold and at the
\* lower threshold
SettlePoses ==
    GlobePoses \cup
    { [position  |-> <<0, 0, h>>,
       direction |-> GlobeOrientation(h).direction,
       up        |-> GlobeOrientation(h).up] : h \in Thresholds }

\* instances in auto mode, for both thresholds
InitSettle ==
    Constructed({ o \in PlainOptions : /\ o.controlMode = "auto"
                                       /\ ~o.enableLightSync },
                SettlePoses, {"none"})

NextSettle ==
    \/ RenderLoopFrame
    \/ Render
    \/ MoveGlobeCamera
    \/ OrbitController

\* engine.runRenderLoop keeps calling the registered callback
SpecSettle == InitSettle /\ [][NextSettle]_vars /\ WF_vars(RenderLoopFrame)

(* ---------------------------------------------------------------------- *)
(* Setters called on a disposed instance                                   *)
(* ---------------------------------------------------------------------- *)

\* setControlMode(mode) after dispose(), the destroyed viewer throwing when
\* its camera is read; SetControlMode is the call in which it does not
SetControlModeDestroyed ==
    /\ constructed
    /\ viewer = "destroyed"
    /\ \E mode \in Modes, rebuilt \in BOOLEAN :
         Apply(setControlMode(Failing("viewer.camera"), mode, rebuilt),
               "setControlMode", mode)

\* setAutoSwitchHeight(height) after dispose(), likewise
SetAutoSwitchHeightDestroyed ==
    /\ constructed
    /\ viewer = "destroyed"
    /\ \E height \in Thresholds, rebuilt \in BOOLEAN :
         Apply(setAutoSwitchHeight(Failing("viewer.camera"), height, rebuilt),
               "setAutoSwitchHeight", height)

InitDisposed == Constructed(PlainOptions, LowPose, {"none"})

NextDisposed ==
    \/ RenderLoopFrame
    \/ SetControlMode
    \/ SetAutoSwitchHeight
    \/ Dispose
    \/ SetControlModeDestroyed
    \/ SetAutoSwitchHeightDestroyed

SpecDisposed == InitDisposed /\ [][NextDisposed]_vars

(* ---------------------------------------------------------------------- *)
(* Properties                                                              *)
(* ---------------------------------------------------------------------- *)

\* the altitude rule: globe above the threshold, local otherwise
RuleMode(height, threshold) == IF height > threshold THEN "cesium" ELSE "babylon"

IsTopLevel(e) == ~e.nested

\* the names of the steps the last operation performed itself, in order
TopLevelSteps ==
    LET top == SelectSeq(last.steps, IsTopLevel)
    IN  [i \in 1..Len(top) |-> top[i].step]

\* the last operation was a frame cycle that ran to its end (loop callback
\* or render()) without an exception
FrameRan ==
    /\ last.op \in {"frame", "render"}
    /\ ~last.threw /\ ~last.caught /\ ~isDisposed

\* C1: between construction and disposal exactly one surface has pointer
\* events enabled, the globe container iff the effective mode is 'cesium',
\* the local canvas iff it is 'babylon'.
C1_PointerEventsFollowMode ==
    ~isDisposed =>
        /\ (cesiumContainerPE = "auto") <=> (actualControlMode = "cesium")
        /\ (babylonCanvasPE = "auto") <=> (actualControlMode = "babylon")
        /\ (cesiumContainerPE = "auto") # (babylonCanvasPE = "auto")

\* C2: whenever the effective mode is local an orbit controller exists, with
\* its limits set and its input attached; whenever the effective mode is
\* globe the controller's input is detached.
C2_ControllerFollowsMode ==
    ~isDisposed =>
        /\ actualControlMode = "babylon" =>
              /\ cameraController.exists
              /\ cameraController.limits
              /\ cameraController.attached
        /\ actualControlMode = "cesium" =>
              (cameraController.exists => ~cameraController.attached)

\* C3: right after a mode switch the pose of the camera that now owns the
\* view, taken to the global frame, equals the globe pose before the switch,
\* and after the next frame without user input the globe camera still has
\* that pose.
C3_SwitchContinuity ==
    /\ cont.phase = "switched" => AuthoritativePose(State) = cont.pose
    /\ cont.phase = "framed"   => PoseOf(viewerCamera) = cont.pose

\* C4: from any globe camera pose, the globe->local pass followed by the
\* local->globe pass leaves the globe camera's position, direction, up and
\* field of view as they were.
C4_MirrorIdempotence ==
    ~isDisposed =>
        moveCesiumCamera(moveBabylonCamera(State)).viewerCamera = viewerCamera

C6_InitialEffectiveMode ==
    last.op = "constructor" =>
        actualControlMode =
            (IF controlMode = "auto"
             THEN RuleMode(getCurrentCameraHeight(State), autoSwitchHeight)
             ELSE controlMode)

\* C7 as stated: for any prior state, on return from setControlMode('auto')
\* the requested mode is auto and the effective mode is globe iff the globe
\* camera's altitude is above the threshold.
C7_SetAutoAnyPriorState ==
    (last.op = "setControlMode" /\ last.arg = "auto") =>
        /\ controlMode = "auto"
        /\ actualControlMode =
              RuleMode(getCurrentCameraHeight(State), autoSwitchHeight)

\* C7 amended: the same, for every prior state whose requested mode is not
\* already auto (when it is, the call returns at once and changes nothing).
C7_SetAutoFromConcrete ==
    (last.op = "setControlMode" /\ last.arg = "auto" /\ last.preMode # "auto") =>
        /\ controlMode = "auto"
        /\ actualControlMode =
              RuleMode(getCurrentCameraHeight(State), autoSwitchHeight)

\* C7 witness: setControlMode('auto') called in globe mode below the threshold
C7_Witness ==
    /\ last.op = "setControlMode" /\ last.arg = "auto"
    /\ last.preMode = "cesium" /\ last.preActual = "cesium"
    /\ actualControlMode = "babylon"
    /\ getCurrentCameraHeight(State) <= autoSwitchHeight

\* C8: the effective mode is always concrete; whenever the requested mode is
\* concrete the effective mode equals it, in particular right after
\* setControlMode(m) with concrete m.
C8_EffectiveModeConcrete ==
    /\ actualControlMode \in ActualModes
    /\ controlMode \in ActualModes => actualControlMode = controlMode
    /\ (last.op = "setControlMode" /\ last.arg \in ActualModes) =>
          actualControlMode = last.arg

\* C8 witness: setControlMode('babylon') called while globe-controlled
C8_Witness ==
    /\ last.op = "setControlMode" /\ last.arg = "babylon"
    /\ last.preActual = "cesium"
    /\ controlMode = "babylon"
    /\ actualControlMode = "babylon"

\* the steps of a frame cycle, in order, for the current modes and options
ExpectedFrameSteps ==
    <<"viewer.render">>
    \o (IF controlMode = "auto" THEN <<"checkAndUpdateAutoMode">> ELSE <<>>)
    \o <<IF actualControlMode = "cesium"
         THEN "moveBabylonCamera" ELSE "moveCesiumCamera">>
    \o (IF enableLightSync THEN <<"updateBabylonLighting">> ELSE <<>>)
    \o <<"scene.render">>

\* C9: every frame cycle of a live instance, loop callback and render()
\* alike, performs: render globe, auto-switch check (requested mode auto
\* only), mirror pass in the direction of the effective mode, lighting (light
\* sync only), render local scene.
C9_FrameOrder ==
    FrameRan => TopLevelSteps = ExpectedFrameSteps

\* C9 witness: a manual render() in auto mode with light sync that switched
C9_Witness ==
    /\ FrameRan /\ last.op = "render"
    /\ controlMode = "auto" /\ enableLightSync
    /\ last.switches = 1

\* C10: in one frame cycle every mirror pass runs in the direction of the
\* effective mode it runs under, and never both directions run.
C10_OneDirection ==
    FrameRan =>
        /\ \A i \in 1..Len(last.steps) :
              /\ last.steps[i].step = "moveBabylonCamera" =>
                    last.steps[i].mode = "cesium"
              /\ last.steps[i].step = "moveCesiumCamera" =>
                    last.steps[i].mode = "babylon"
        /\ ~ \E i, j \in 1..Len(last.steps) :
              /\ last.steps[i].step = "moveBabylonCamera"
              /\ last.steps[j].step = "moveCesiumCamera"

\* C10 witness: a loop frame whose auto check switched to globe, so that the
\* switch and the frame each ran a mirror pass
C10_Witness ==
    /\ FrameRan /\ last.op = "frame"
    /\ last.switches = 1
    /\ actualControlMode = "cesium"
    /\ \E i, j \in 1..Len(last.steps) :
          /\ i # j
          /\ last.steps[i].step = "moveBabylonCamera"
          /\ last.steps[j].step = "moveBabylonCamera"

\* C11: exactly one pick path is subscribed at any time, the globe click
\* handler iff the effective mode is globe, the local pointer-down handler iff
\* it is local; with a callback configured, a click on the surface of the
\* effective mode reaches the callback.
C11_PickPathFollowsMode ==
    (constructed /\ ~isDisposed /\ onMeshPicked) =>
        /\ cesiumPick <=> (actualControlMode = "cesium")
        /\ babylonPick <=> (actualControlMode = "babylon")
        /\ (/\ last.op = "globeClick"
            /\ actualControlMode = "cesium"
            /\ last.arg.pickedPosition) => Len(last.callbacks) = 1
        /\ (/\ last.op = "localPointer"
            /\ actualControlMode = "babylon"
            /\ last.arg.type = "POINTERDOWN") => Len(last.callbacks) = 1

\* C12: while the effective mode is globe and a callback is configured, every
\* globe click makes one local pick query at the click's screen position and
\* calls the callback once, with the mesh under that position or with null.
C12_GlobeClickPicksOnce ==
    (/\ last.op = "globeClick"
     /\ onMeshPicked
     /\ actualControlMode = "cesium") =>
        /\ last.picks = << last.arg.position >>
        /\ last.callbacks = << MeshAt(last.arg.position) >>

\* C13: an exception thrown by a step of a loop frame does not leave the
\* callback and does not stop the loop, and the loop frame that follows a
\* caught exception, if no step of it throws, runs the full cycle.
C13_LoopSurvivesException ==
    /\ last.op = "frame" => ~last.threw
    /\ (last.op = "frame" /\ last.caught) =>
          /\ renderLoop = "running"
          /\ ~isDisposed
    /\ (last.op = "frame" /\ last.afterCaught /\ ~last.caught /\ ~isDisposed) =>
          TopLevelSteps = ExpectedFrameSteps

\* C13 witness: a loop frame that ran to its end right after a loop frame
\* whose auto switch had thrown while reconfiguring the controls
C13_Witness ==
    /\ last.op = "frame" /\ last.afterCaught /\ ~last.caught /\ ~isDisposed
    /\ controlMode = "auto"
    /\ actualControlMode = "babylon"
    /\ babylonCanvasPE = "none"
    /\ Len(last.steps) >= 4

\* a call of op on an instance that was already disposed changes none of the
\* program's variables
NoEffectWhenDisposed(op) ==
    (isDisposed /\ last'.op = op) => UNCHANGED programVars

\* C14: on a disposed instance render() throws and performs no step of the
\* cycle, a loop callback that still fires returns without an error and
\* without a step, and neither changes the cameras, the modes or anything
\* else of the instance.
C14_NothingAfterDispose ==
    /\ [](/\ (last.op = "render" /\ last.preDisposed) =>
               (last.threw /\ last.steps = <<>>)
          /\ (last.op = "frame" /\ last.preDisposed) =>
               (~last.threw /\ ~last.caught /\ last.steps = <<>>))
    /\ [][NoEffectWhenDisposed("render") /\ NoEffectWhenDisposed("frame")]_vars

\* C14 witness: render() called after dispose() threw, on an instance whose
\* loop had been running
C14_Witness ==
    /\ last.op = "render" /\ last.preDisposed /\ last.threw
    /\ renderLoop = "stopped"

\* C15: a second or later dispose() throws nothing and changes nothing; over
\* any sequence of calls on a constructed instance each canvas is removed
\* from the container exactly once and every resource is released at most
\* once.
C15_DisposeIdempotent ==
    /\ [](/\ last.op = "dispose" => ~last.threw
          /\ \A r \in Resources : released[r] <= 1
          /\ (constructed /\ isDisposed) =>
                /\ released["cesiumContainer"] = 1
                /\ released["babylonCanvas"] = 1
                /\ ~inDom.cesiumContainer
                /\ ~inDom.babylonCanvas)
    /\ [][NoEffectWhenDisposed("dispose")]_vars

\* C15 witness: a second dispose() on an instance that had owned every
\* resource
C15_Witness ==
    /\ last.op = "dispose" /\ last.preDisposed
    /\ \A r \in Resources : released[r] = 1

\* C16: when a step of the constructor throws, the disposal routine has run
\* and the error is rethrown, and afterwards neither canvas of the instance
\* is in the container and neither its render loop nor its resize observer
\* is running, whichever step failed.
C16_FailedConstructionLeavesNothing ==
    (last.op = "constructor" /\ last.threw) =>
        /\ isDisposed
        /\ ~constructed
        /\ ~inDom.cesiumContainer
        /\ ~inDom.babylonCanvas
        /\ renderLoop # "running"
        /\ resizeObserver # "observing"

\* C17: when dispose() returns from tearing down a constructed instance the
\* render loop is stopped, the resize observer and both pick listeners are
\* detached, the sun light, debug line, shadow generator and controller are
\* disposed, both engines are destroyed and both canvases are out of the
\* container.
C17_DisposeTearsDown ==
    (constructed /\ last.op = "dispose" /\ ~last.preDisposed) =>
        /\ isDisposed
        /\ renderLoop # "running"
        /\ resizeObserver = "disconnected"
        /\ ~cesiumPick /\ ~babylonPick
        /\ ~sunLight /\ ~directionLine /\ ~shadowGenerator
        /\ ~cameraController.exists
        /\ engine = "disposed" /\ viewer = "destroyed"
        /\ ~inDom.cesiumContainer /\ ~inDom.babylonCanvas
        /\ released["sunLight"] = (IF enableLightSync THEN 1 ELSE 0)
        /\ released["shadowGenerator"] =
              (IF enableLightSync /\ enableShadow THEN 1 ELSE 0)
        /\ \A r \in {"resizeObserver", "engine", "viewer",
                      "cesiumContainer", "babylonCanvas"} : released[r] = 1

\* C17 witness: dispose() of an instance with a running loop, a pick
\* callback, a sun light, a shadow generator, a debug line and a controller
C17_Witness ==
    /\ constructed /\ last.op = "dispose" /\ ~last.preDisposed
    /\ autoRender /\ onMeshPicked
    /\ \A r \in Resources : released[r] = 1

\* C18: the public babylonToCartesian applied to cartesianToBabylon of a
\* point near the base point gives that point back.
C18_PositionRoundTrip ==
    constructed =>
        babylonToCartesian(cartesianToBabylon(viewerCamera.position))
            = viewerCamera.position

\* the dot product of two vectors
\* a direction of length one: a ray's primitive vector
IsUnit(v) == v # <<0, 0, 0>> /\ Normalize(v) = v

\* the directions the globe camera holds
GlobeDirections == { viewerCamera.direction, viewerCamera.up }

\* C19: babylonDirectionToCesium applied to cesiumDirectionToBabylon of a
\* unit direction gives that direction back: the axis permutation is undone
\* and the base point is not added to a direction.
C19_DirectionRoundTrip ==
    constructed =>
        \A d \in GlobeDirections :
            IsUnit(d) =>
                /\ IsUnit(cesiumDirectionToBabylon(d))
                /\ babylonDirectionToCesium(cesiumDirectionToBabylon(d)) = d

\* C19 witness: a frame in globe mode mirrored an oblique viewing direction,
\* one the controller had given the globe camera, to the free camera
C19_Witness ==
    /\ FrameRan /\ actualControlMode = "cesium"
    /\ IsUnit(viewerCamera.direction)
    /\ viewerCamera.direction[1] # 0 /\ viewerCamera.direction[3] # 0
    /\ VSub(camera.target, camera.position)
          = cesiumDirectionToBabylon(viewerCamera.direction)
    /\ babylonDirectionToCesium(VSub(camera.target, camera.position))
          = viewerCamera.direction

\* C20: after every mirror write of a frame the camera that was written has
\* a unit direction and a unit up vector, orthogonal to each other.
C20_MirrorWritesOrthonormal ==
    FrameRan =>
        IF actualControlMode = "cesium"
        THEN LET dir == VSub(camera.target, camera.position) IN
             /\ IsUnit(dir)
             /\ IsUnit(camera.upVector)
             /\ Dot(dir, camera.upVector) = 0
        ELSE cameraController.exists =>
             /\ IsUnit(viewerCamera.direction)
             /\ IsUnit(viewerCamera.up)
             /\ Dot(viewerCamera.direction, viewerCamera.up) = 0

(* ---------------------------------------------------------------------- *)
(* Lighting                                                                *)
(* ---------------------------------------------------------------------- *)

\* what the lighting synchroniser writes
lightingVars == <<currentSunDirection, sunLightState, directionLine,
                  directionLineEnd>>

\* the last operation was a frame cycle in which the lighting step ran with
\* globe lighting on and the transform available
LitUpdateRan ==
    /\ FrameRan
    /\ enableLightSync
    /\ last.arg.enableLighting
    /\ last.arg.icrfToFixed

\* C21: a frame changes the stored sun direction, the light's direction,
\* position and intensity, or the debug line only if lighting sync is
\* enabled and the globe reports lighting enabled; every other frame leaves
\* all of them as they were.
C21_LightingOnlyWhenEnabled ==
    [][ (/\ last'.op \in {"frame", "render"}
         /\ ~(enableLightSync /\ last'.arg.enableLighting))
        => UNCHANGED lightingVars ]_vars

\* a frame with globe lighting off ran after lit frames had moved the sun
\* and built the debug line
C21_Witness ==
    /\ FrameRan
    /\ enableLightSync
    /\ ~last.arg.enableLighting
    /\ currentSunDirection # InitialSunDirection
    /\ directionLine

\* C22: in a frame whose lighting step finds no ICRF-to-fixed matrix nothing
\* is thrown or caught, the sun direction, the light's values and the debug
\* line keep their values, and the frame still ends with the render of the
\* local scene.
C22_MissingTransformSkipsUpdate ==
    [][ (/\ last'.op \in {"frame", "render"}
         /\ ~isDisposed
         /\ enableLightSync
         /\ last'.arg.enableLighting
         /\ ~last'.arg.icrfToFixed)
        => /\ ~last'.threw
           /\ ~last'.caught
           /\ UNCHANGED lightingVars
           /\ Len(last'.steps) > 0
           /\ last'.steps[Len(last'.steps)].step = "scene.render"
           /\ ~last'.steps[Len(last'.steps)].nested ]_vars

\* a frame ran its lighting step without a matrix, after lit frames
C22_Witness ==
    /\ FrameRan
    /\ enableLightSync
    /\ last.arg.enableLighting
    /\ ~last.arg.icrfToFixed
    /\ \E i \in 1..Len(last.steps) : last.steps[i].step = "updateBabylonLighting"
    /\ currentSunDirection # InitialSunDirection
    /\ sunLight

\* C23: after every lighting update the light's intensity lies between 0
\* and 1 (UnitScale), and it is 0 whenever the up-component of the local
\* sun direction is at most 0.
C23_IntensityBounds ==
    (LitUpdateRan /\ sunLight) =>
        /\ sunLightState.intensity \in 0..UnitScale
        /\ currentSunDirection[2] <= 0 => sunLightState.intensity = 0

\* an update with the sun below the horizon, and the light dark
C23_Witness ==
    /\ LitUpdateRan
    /\ sunLight
    /\ currentSunDirection[2] < 0
    /\ sunLightState.intensity = 0

\* C24: with enableShadow set in the options the instance exposes a shadow
\* generator after construction, whatever the other options are.
C24_ShadowCapabilityExposed ==
    (constructed /\ ~isDisposed /\ enableShadow) => shadowGenerator

\* C25: while the debug indicator is enabled an operation creates at most
\* one line and none when one exists; an existing line stays the same
\* object until disposal, and every lighting update leaves a line whose end
\* point is the one computed for that update.
C25_SingleDebugLine ==
    [][ showSunDirectionLine =>
          /\ last'.linesCreated <= 1
          /\ directionLine => last'.linesCreated = 0
          /\ (directionLine /\ last'.op # "dispose") =>
                /\ directionLine'
                /\ released'["directionLine"] = released["directionLine"]
          /\ (/\ last'.op \in {"frame", "render"}
              /\ ~isDisposed
              /\ enableLightSync
              /\ last'.arg.enableLighting
              /\ last'.arg.icrfToFixed) =>
                /\ directionLine'
                /\ directionLineEnd' = lineEndPoint(last'.arg.sunPosition) ]_vars

\* a lighting update moved the end of a line that existed before it
C25_Witness ==
    /\ LitUpdateRan
    /\ showSunDirectionLine
    /\ directionLine
    /\ last.linesCreated = 0
    /\ directionLineEnd = lineEndPoint(last.arg.sunPosition)
    /\ directionLineEnd # lineEndPoint(NoonSun)

(* ---------------------------------------------------------------------- *)
(* Switching and rendering                                                 *)
(* ---------------------------------------------------------------------- *)

\* how many times the last operation performed the named step
StepCount(step) ==
    Cardinality({ i \in 1..Len(last.steps) : last.steps[i].step = step })

\* the steps the last operation performed inside a mode switch, in order
NestedSteps ==
    LET inner == SelectSeq(last.steps, LAMBDA e : e.nested)
    IN  [i \in 1..Len(inner) |-> inner[i].step]

\* the last operation changed the effective mode of a live instance
ModeChanged ==
    /\ last.op \in {"setControlMode", "setAutoSwitchHeight", "frame", "render"}
    /\ ~last.preDisposed
    /\ actualControlMode # last.preActual

\* C26: a frame cycle run in auto mode, with the camera at, above or below
\* the threshold and after any earlier crossings, throws nothing, evaluates
\* the rule once and performs at most one mode switch.
C26_AtMostOneSwitchPerFrame ==
    (/\ last.op \in {"frame", "render"}
     /\ last.preMode = "auto"
     /\ ~last.preDisposed) =>
        /\ ~last.threw
        /\ ~last.caught
        /\ StepCount("checkAndUpdateAutoMode") = 1
        /\ last.switches <= 1

\* a frame read an altitude equal to the threshold and switched, once
C26_Witness ==
    /\ last.op = "frame"
    /\ last.preMode = "auto"
    /\ last.check.done
    /\ last.check.height = last.check.threshold
    /\ last.switches = 1

\* C27: on an instance built with autoRender = false no loop callback is
\* registered, no operation other than render() renders the globe or the
\* local scene, and a render() call renders each of them exactly once.
C27_ManualRenderingOnly ==
    (constructed /\ ~autoRender) =>
        /\ renderLoop = "none"
        /\ last.op # "render" =>
              StepCount("viewer.render") = 0 /\ StepCount("scene.render") = 0
        /\ (last.op = "render" /\ ~last.threw) =>
              StepCount("viewer.render") = 1 /\ StepCount("scene.render") = 1

\* a render() call on a manual instance switched the mode and still
\* rendered one frame
C27_Witness ==
    /\ constructed
    /\ ~autoRender
    /\ last.op = "render"
    /\ last.switches = 1
    /\ StepCount("scene.render") = 1

\* C28: every mesh added to the local scene without a parent has the root
\* node as its parent afterwards, and that node is what babylonRootNode
\* returns.
C28_NewMeshesParentedToRoot ==
    \A i \in 1..Len(meshes) :
        meshes[i].given = "none" =>
            /\ babylonRootNode # "undefined"
            /\ meshes[i].parent = babylonRootNode

\* the switch procedure ran in the last operation and completed
SwitchRan ==
    /\ last.op \in {"setControlMode", "setAutoSwitchHeight", "frame", "render"}
    /\ last.switches >= 1
    /\ ~last.threw
    /\ ~last.caught

C30_SwitchMirrorsNewDirection ==
    ModeChanged =>
        \E i \in 1..Len(NestedSteps) :
            NestedSteps[i] = IF actualControlMode = "cesium"
                             THEN "moveBabylonCamera" ELSE "moveCesiumCamera"

(* ---------------------------------------------------------------------- *)
(* Mirror passes: field of view and what they write                        *)
(* ---------------------------------------------------------------------- *)

\* the last operation was a completed frame whose mirror pass was
\* local -> globe, read from an existing controller
MirroredToGlobe ==
    /\ FrameRan
    /\ cameraController.exists
    /\ \E i \in 1..Len(TopLevelSteps) : TopLevelSteps[i] = "moveCesiumCamera"

\* C31: after a local -> globe mirror pass the globe frustum's field of view
\* is the orbit controller's, and a globe -> local pass that follows reads
\* back, as the vertical field of view, that same angle.
C31_FovRoundTrip ==
    MirroredToGlobe =>
        /\ viewerCamera.fov = cameraController.fov
        /\ moveBabylonCamera(State).camera.fov = cameraController.fov

\* C32: in every live state the mirror pass of the effective mode leaves the
\* requested mode, the effective mode, the threshold and the orbit
\* controller as they are, and in globe mode the globe camera too: it
\* writes the follower cameras only.
C32_MirrorWritesFollowerOnly ==
    (constructed /\ ~isDisposed) =>
        LET after == frameMirror(State)
        IN  /\ after.controlMode = controlMode
            /\ after.actualControlMode = actualControlMode
            /\ after.autoSwitchHeight = autoSwitchHeight
            /\ after.cameraController = cameraController
            /\ actualControlMode = "cesium" => after.viewerCamera = viewerCamera

\* a frame in local mode has written the controller's position into the
\* globe camera
C32_Witness ==
    /\ MirroredToGlobe
    /\ actualControlMode = "babylon"
    /\ viewerCamera.position = babylonPositionToCesium(cameraController.position)
    /\ camera.position = cameraController.position

(* ---------------------------------------------------------------------- *)
(* Resize                                                                  *)
(* ---------------------------------------------------------------------- *)

\* the names of the steps of the operation that leads to the next state
NextStepNames == [i \in 1..Len(last'.steps) |-> last'.steps[i].step]

\* C33: a resize notification, wherever it falls between frames and calls,
\* throws nothing and changes no variable of the instance (cameras, modes,
\* lights included); on a live instance it resizes the local engine and the
\* viewer, once each, and on a disposed instance it calls neither.
C33_ResizeOnlyResizes ==
    [][ last'.op = "resize" =>
          /\ UNCHANGED programVars
          /\ ~last'.threw
          /\ NextStepNames = IF isDisposed THEN <<>>
                             ELSE <<"engine.resize", "viewer.resize">> ]_vars

\* a notification was delivered to a disposed instance and did nothing
C33_Witness ==
    /\ last.op = "resize"
    /\ last.preDisposed
    /\ last.steps = <<>>
    /\ engine = "disposed"

(* ---------------------------------------------------------------------- *)
(* setAutoSwitchHeight                                                     *)
(* ---------------------------------------------------------------------- *)

\* what a concrete requested mode keeps fixed
modeOwnedVars ==
    <<actualControlMode, babylonCanvasPE, cesiumContainerPE, cameraController,
      viewerCamera, camera, activeCamera, created>>

\* C34: on a live instance setAutoSwitchHeight(h) stores h and keeps the
\* requested mode; in auto mode it leaves the effective mode globe iff the
\* altitude is above h, switching exactly when that differs from the
\* effective mode before the call; in a concrete mode it performs no step
\* and changes neither the effective mode, the pointer events, the
\* controller nor a camera.
C34_SetAutoSwitchHeight ==
    [][ (last'.op = "setAutoSwitchHeight" /\ ~isDisposed) =>
          /\ autoSwitchHeight' = last'.arg
          /\ controlMode' = controlMode
          /\ ~last'.threw
          /\ IF controlMode = "auto"
             THEN LET target == RuleMode(getCurrentCameraHeight(State), last'.arg)
                  IN  /\ actualControlMode' = target
                      /\ last'.switches =
                            IF actualControlMode = target THEN 0 ELSE 1
             ELSE /\ UNCHANGED modeOwnedVars
                  /\ last'.steps = <<>> ]_vars

\* in auto mode a call lowered the threshold below the camera and the
\* instance went from local to globe inside the call
C34_Witness ==
    /\ last.op = "setAutoSwitchHeight"
    /\ ~last.preDisposed
    /\ last.preMode = "auto"
    /\ last.preActual = "babylon"
    /\ actualControlMode = "cesium"
    /\ autoSwitchHeight = last.arg
    /\ last.switches = 1

(* ---------------------------------------------------------------------- *)
(* Active camera and the orbit controller                                  *)
(* ---------------------------------------------------------------------- *)

\* C35: between construction and disposal the local scene's active camera
\* is the orbit controller iff the effective mode is 'babylon', and the
\* mirrored free camera iff it is 'cesium'.
C35_ActiveCameraFollowsMode ==
    (constructed /\ ~isDisposed) =>
        /\ activeCamera = "arc"  <=> actualControlMode = "babylon"
        /\ activeCamera = "free" <=> actualControlMode = "cesium"
        /\ activeCamera = "arc" => cameraController.exists

\* C36: on a live instance at most one orbit controller has been
\* constructed, the one that exists if any, and no operation constructs a
\* controller while one exists.
C36_OneControllerPerInstance ==
    /\ []((constructed /\ ~isDisposed) =>
             /\ created <= 1
             /\ cameraController.exists <=> created = 1)
    /\ [][created' > created =>
             /\ ~cameraController.exists
             /\ created' = created + 1]_vars

\* the instance entered local mode again with the controller where the user
\* had left it: the existing controller was reused
C36_Witness ==
    /\ ~isDisposed
    /\ last.switches = 1
    /\ last.preActual = "cesium"
    /\ actualControlMode = "babylon"
    /\ created = 1
    /\ cameraController.position \in OrbitPositions \ {ArcInitialPosition}

(* ---------------------------------------------------------------------- *)
(* Errors inside a mode switch                                             *)
(* ---------------------------------------------------------------------- *)

\* pointer events, controller attachment and active camera are those of the
\* effective mode
ControlsMatchMode ==
    IF actualControlMode = "babylon"
    THEN /\ babylonCanvasPE = "auto"
         /\ cesiumContainerPE = "none"
         /\ cameraController.exists
         /\ cameraController.attached
         /\ activeCamera = "arc"
    ELSE /\ babylonCanvasPE = "none"
         /\ cesiumContainerPE = "auto"
         /\ cameraController.exists => ~cameraController.attached
         /\ activeCamera = "free"

\* C37: a loop frame that starts with the controls of the effective mode in
\* place and whose exception is caught ends with the controls of the
\* effective mode in place: the mode is not left at its new value with the
\* pointer events, attachment or active camera of the old one.
C37_SwitchAtomicOnError ==
    [][ (ControlsMatchMode /\ last'.op = "frame" /\ last'.caught) =>
            ControlsMatchMode' ]_vars

(* ---------------------------------------------------------------------- *)
(* Auto mode settles                                                       *)
(* ---------------------------------------------------------------------- *)

\* the step is a camera movement made by the user or the application
UserInput == last'.op \in {"moveGlobeCamera", "orbit"}

\* C38: in auto mode with the threshold fixed, if from some point on no
\* camera is moved from outside, then from some point on the effective mode
\* no longer changes.
C38_AutoModeSettles ==
    <>[][~UserInput]_vars => <>[][actualControlMode' = actualControlMode]_vars

\* a frame without a switch in globe mode, the globe camera standing where
\* the controller's pose had been mirrored: the instance went to local mode,
\* was lifted above the threshold by the mirror pass, came back and stays
C38_Witness ==
    /\ controlMode = "auto"
    /\ last.op = "frame"
    /\ last.switches = 0
    /\ ~last.caught
    /\ actualControlMode = "cesium"
    /\ cameraController.exists
    /\ viewerCamera.position = babylonPositionToCesium(cameraController.position)

(* ---------------------------------------------------------------------- *)
(* Setters after disposal                                                  *)
(* ---------------------------------------------------------------------- *)

====
